---- MODULE Spec2Model ----
(***************************************************************************)
(* Model of misconfigmate.py: main(), MisconfigMapper._load_services,      *)
(* MisconfigMapper._check_endpoint and MisconfigMapper.scan with its       *)
(* ThreadPoolExecutor.                                                     *)
(*                                                                         *)
(* The main thread is followed by pc; every task of the batch in flight    *)
(* is followed by its own position in work.  `self.discovered += 1` and    *)
(* `self.errors += 1` are a read followed by a write of a shared           *)
(* attribute with no lock, so each is two steps.                           *)
(***************************************************************************)
EXTENDS Integers, Sequences, FiniteSets, TLC

\* ------------------------------------------------------------------------
\* Bounds of the model
\* ------------------------------------------------------------------------
MaxThreads == 2
MaxServices == 2
MaxFileServices == 6
MaxBodyLen == 3

\* ------------------------------------------------------------------------
\* Program constants
\* ------------------------------------------------------------------------
NumSuffixes == 15
NumPrefixes == 6
BatchDivisor == 20
MaxBatch == 10
MinBatch == 1

\* len(generate_permutations(target)) for a target without string collisions
NumPerms == 1 + 2 * NumSuffixes + 2 * NumPrefixes

OutputFormats == {"table", "json", "jsonl", "csv", "webhook"}

\* ------------------------------------------------------------------------
\* Templates (entries of templates/services.json that follow the schema)
\* ------------------------------------------------------------------------
Alphabet == {"a", "b"}

IdOf(k) == <<"1", "2", "3", "4", "5", "6", "7", "8">>[k]

ScalarTemplate(k) ==
    [id |-> IdOf(k),
     service |-> "scalar",
     path |-> <<"/">>,
     statusCode |-> [isList |-> FALSE, code |-> 200, codes |-> <<>>],
     detectionFingerprints |-> << <<"a", "b">> >>,
     fingerprints |-> << <<"b", "a">> >>]

ListTemplate(k) ==
    [id |-> IdOf(k),
     service |-> "list",
     path |-> <<"/">>,
     statusCode |-> [isList |-> TRUE, code |-> 0, codes |-> <<404, 403>>],
     detectionFingerprints |-> << <<"b", "b">>, <<"a", "b">> >>,
     fingerprints |-> << <<"a", "a">>, <<"b", "a">> >>]

\* The k-th entry of the template file
Catalogue(k) == IF k % 2 = 1 THEN ScalarTemplate(k) ELSE ListTemplate(k)

FileContent(ns) == [k \in 1..ns |-> Catalogue(k)]

\* ------------------------------------------------------------------------
\* The servers probed: what requests.request returns for a URL
\* ------------------------------------------------------------------------
Pow2(k) == 2 ^ k

NumTexts == Pow2(MaxBodyLen + 1) - 1

\* the t-th body, t in 0..NumTexts-1: every string over Alphabet up to MaxBodyLen
TextLen(t) == CHOOSE k \in 0..MaxBodyLen : Pow2(k) - 1 <= t /\ t < Pow2(k + 1) - 1

TextOf(t) ==
    LET k == TextLen(t)
        j == t - (Pow2(k) - 1)
    IN [p \in 1..k |-> IF (j \div Pow2(p - 1)) % 2 = 0 THEN "a" ELSE "b"]

Statuses == <<200, 404>>

NumResponses == 1 + NumTexts * Len(Statuses)

TransportError == [raised |-> TRUE, status_code |-> 0, text |-> <<>>]

\* the r-th response of the sweep, r in 0..NumResponses-1
ResponseOf(r) ==
    IF r = 0 THEN TransportError
    ELSE [raised |-> FALSE,
          status_code |-> Statuses[((r - 1) % Len(Statuses)) + 1],
          text |-> TextOf((r - 1) \div Len(Statuses))]

NotFound == [raised |-> FALSE, status_code |-> 404, text |-> <<>>]

Answer(status_code, text) == [raised |-> FALSE, status_code |-> status_code, text |-> text]

\* the answers of the first hosts of the "sample" world
Sample ==
    << Answer(200, <<"a", "b", "a">>),
       Answer(200, <<"b", "a", "b">>),
       Answer(404, <<"a", "b">>),
       TransportError,
       TransportError,
       TransportError,
       Answer(200, <<"b", "a">>),
       Answer(404, <<"a", "a", "b">>) >>

\* "down":   every request raises (no host resolves)
\* "sweep":  the hosts answer with every response in turn
\* "sample": the first hosts answer as Sample says, every other host with an
\*           empty 404
Worlds == {"down", "sweep", "sample"}

\* position of a URL <<service index, permutation index, path index>> among
\* the URLs of templates that have one path each
HostIndex(url) == (url[1] - 1) * NumPerms + (url[2] - 1) + (url[3] - 1)

Respond(w, url) ==
    CASE w = "down" -> TransportError
      [] w = "sweep" -> ResponseOf(HostIndex(url) % NumResponses)
      [] w = "sample" -> IF HostIndex(url) < Len(Sample)
                         THEN Sample[HostIndex(url) + 1]
                         ELSE NotFound

\* ------------------------------------------------------------------------
\* _check_endpoint, lines 113-126: classification of a response
\* ------------------------------------------------------------------------
\* `fp in response.text`: fp occurs in text as a contiguous run of characters
IsIn(fp, text) ==
    \E i \in 0..(Len(text) - Len(fp)) :
        \A p \in 1..Len(fp) : text[i + p] = fp[p]

\* any(fp in response.text for fp in fps)
AnyFingerprint(fps, text) == \E k \in DOMAIN fps : IsIn(fps[k], text)

\* line 113
Exists(resp, service) == AnyFingerprint(service.detectionFingerprints, resp.text)

\* lines 117-121
StatusMatch(status_code, statusCode) ==
    IF statusCode.isList
    THEN \E k \in DOMAIN statusCode.codes : statusCode.codes[k] = status_code
    ELSE status_code = statusCode.code

\* lines 115-126 with the skip_checks test of line 116 left out
Vulnerable_IgnoresSkip(resp, service, skip) ==
    IF Exists(resp, service)
    THEN StatusMatch(resp.status_code, service.statusCode)
         /\ AnyFingerprint(service.fingerprints, resp.text)
    ELSE FALSE

\* lines 115-126 with the `exists` test of line 116 left out
Vulnerable_Unguarded(resp, service, skip) ==
    IF ~skip
    THEN StatusMatch(resp.status_code, service.statusCode)
         /\ AnyFingerprint(service.fingerprints, resp.text)
    ELSE FALSE

\* lines 115-126
Vulnerable(resp, service, skip) ==
    IF ~skip /\ Exists(resp, service)
    THEN StatusMatch(resp.status_code, service.statusCode)
         /\ AnyFingerprint(service.fingerprints, resp.text)
    ELSE FALSE

\* line 128 with `and` in place of `or`
Populated_Both(exists, vulnerable) == exists /\ vulnerable

\* line 128
Populated(exists, vulnerable) == exists \/ vulnerable

\* ------------------------------------------------------------------------
\* generate_urls, lines 167-184
\* ------------------------------------------------------------------------
\* the tasks of the k-th service: for domain in permutations, for path in paths
UrlsOfService(svcs, k) ==
    LET np == Len(svcs[k].path)
    IN [m \in 1..(NumPerms * np) |->
           [url |-> <<k, ((m - 1) \div np) + 1, ((m - 1) % np) + 1>>, service |-> k]]

RECURSIVE UrlsUpTo(_, _)
UrlsUpTo(svcs, k) ==
    IF k = 0 THEN <<>> ELSE UrlsUpTo(svcs, k - 1) \o UrlsOfService(svcs, k)

GenerateUrlList(svcs) == UrlsUpTo(svcs, Len(svcs))

\* ------------------------------------------------------------------------
\* scan, lines 295-296: batching
\* ------------------------------------------------------------------------
Min(a, b) == IF a < b THEN a ELSE b
Max(a, b) == IF a > b THEN a ELSE b

\* line 295 without the upper clamp: max(1, len(urls) // 20)
BatchSize_NoUpperClamp(n) == Max(MinBatch, n \div BatchDivisor)

\* max(1, min(10, len(urls) // 20))
BatchSize(n) == Max(MinBatch, Min(MaxBatch, n \div BatchDivisor))

\* range(0, n, step) as the sequence of its values
Range0(n, step) == [k \in 1..((n + step - 1) \div step) |-> (k - 1) * step]

\* urls[i:i + size] (0-based slice, clipped at the end of the list)
Slice(list, i, size) == SubSeq(list, i + 1, Min(i + size, Len(list)))

\* [urls[i:i + batch_size] for i in range(0, len(urls), batch_size)]
UrlBatches(list, size) ==
    LET starts == Range0(Len(list), size)
    IN [k \in DOMAIN starts |-> Slice(list, starts[k], size)]

\* ------------------------------------------------------------------------
\* State
\* ------------------------------------------------------------------------
VARIABLES
    pc,             \* position of the main thread
    exit_code,      \* exit status of the process, meaningful once pc = "exited"
    output_format,  \* args.output
    webhook_url,    \* args.webhook: "" when the flag is absent
    service_arg,    \* args.service
    threads,        \* args.threads
    skip_checks,    \* args.skip_checks
    file_state,     \* templates/services.json: "missing", "malformed" or "ok"
    file_services,  \* number of templates in the file when it is "ok"
    world,          \* behaviour of the probed servers
    services,       \* self.services
    discovered,     \* self.discovered
    errors,         \* self.errors
    urls,           \* scan: urls
    batch_size,     \* scan: batch_size
    url_batches,    \* scan: url_batches
    bi,             \* scan: number of batches taken by the for loop
    work,           \* the futures of the batch in flight, in submission order
    results,        \* scan: results
    completed,      \* progress: task.completed
    shown,          \* progress: task.fields["discovered"]
    submitted,      \* history: the tasks handed to executor.map so far, in order
    collected,      \* history: number of batches whose results were collected
    started,        \* history: URLs of the tasks a worker thread has taken
    finished,       \* history: URLs of the tasks whose process_url has returned
    call,           \* a method called on its own: its arguments and return value
    sigint          \* the process has received an interrupt signal (SIGINT)

vars == <<pc, exit_code, output_format, webhook_url, service_arg, threads, skip_checks,
          file_state, file_services, world, services, discovered, errors, urls,
          batch_size, url_batches, bi, work, results, completed, shown, submitted,
          collected, started, finished, call, sigint>>

args == <<output_format, webhook_url, service_arg, threads, skip_checks>>
env == <<file_state, file_services, world, sigint>>
scanLocals == <<urls, batch_size, url_batches, bi>>
counters == <<discovered, errors>>
progress == <<completed, shown>>
history == <<submitted, collected, started, finished>>

None == [kind |-> "None"]

\* no method is being called on its own
NoCall == [fn |-> "none"]

\* a future of the batch in flight: process_url(task) and its local variables;
\* rank records the value of task.completed when process_url returned, that is
\* the order in which the futures of the batch completed
Queued(task) ==
    [task |-> task, pc |-> "queued", tmp |-> 0, exists |-> FALSE, vulnerable |-> FALSE,
     status_code |-> 0, result |-> None, rank |-> 0]

\* _check_endpoint, lines 130-141
ProbeResult(w) ==
    [kind |-> "result", url |-> w.task.url, exists |-> w.exists,
     vulnerable |-> w.vulnerable, service |-> w.task.service,
     status_code |-> w.status_code]

\* tasks taken by a worker thread and not yet returned
Busy == {p \in DOMAIN work : work[p].pc \notin {"queued", "done", "cancelled"}}

ServiceArgs == {"*", "1", "list", "nomatch"}

\* ------------------------------------------------------------------------
\* Initial states
\* ------------------------------------------------------------------------
Fresh ==
    /\ exit_code = 0
    /\ discovered = 0
    /\ errors = 0
    /\ urls = <<>>
    /\ batch_size = 0
    /\ url_batches = <<>>
    /\ bi = 0
    /\ work = <<>>
    /\ results = <<>>
    /\ completed = 0
    /\ shown = 0
    /\ submitted = <<>>
    /\ collected = 0
    /\ started = {}
    /\ finished = {}
    /\ call = NoCall
    /\ sigint = FALSE

\* The scanner is constructed (lines 44-67) and scan() is about to run.  When
\* every request raises, lines 113-141 are never reached and neither the
\* templates' response sections nor skip_checks are read, so that world is
\* explored with one template and skip_checks = FALSE only.  The sweep through
\* every response exercises the classification of lines 113-128, which reads
\* no shared mutable state, and is explored with one worker thread.
Init ==
    /\ Fresh
    /\ pc = "scan"
    /\ output_format = "table"
    /\ webhook_url = ""
    /\ service_arg = "*"
    /\ file_state = "ok"
    /\ world \in Worlds
    /\ file_services \in (IF world = "down" THEN 0..1 ELSE 0..MaxServices)
    /\ services = FileContent(file_services)
    /\ threads \in (IF world = "sweep" THEN {1} ELSE 1..MaxThreads)
    /\ skip_checks \in (IF world = "down" THEN {FALSE} ELSE BOOLEAN)

\* The process starts: main() has parsed its arguments (line 323).
MainInit ==
    /\ Fresh
    /\ pc = "main"
    /\ output_format \in OutputFormats
    /\ webhook_url \in {"", "http://hook"}
    /\ service_arg \in ServiceArgs
    /\ file_state \in {"missing", "malformed", "ok"}
    /\ file_services \in (IF file_state = "ok" THEN 0..MaxFileServices ELSE {0})
    /\ services = <<>>
    /\ threads = 1
    /\ world = "sample"
    /\ skip_checks = FALSE

\* ------------------------------------------------------------------------
\* main, lines 309-340
\* ------------------------------------------------------------------------
Exit(code) ==
    /\ pc' = "exited"
    /\ exit_code' = code

\* lines 325-327: webhook output without a webhook URL: message, then `return`
MainWebhookMissing ==
    /\ pc = "main"
    /\ output_format = "webhook" /\ webhook_url = ""
    /\ Exit(0)
    /\ UNCHANGED <<args, env, call, services, counters, scanLocals, work, results, progress, history>>

\* lines 325, 329-330: the check passes, MisconfigMapper(args) is entered
MainConstruct ==
    /\ pc = "main"
    /\ ~(output_format = "webhook" /\ webhook_url = "")
    /\ pc' = "construct"
    /\ UNCHANGED <<exit_code, args, env, call, services, counters, scanLocals, work, results,
                   progress, history>>

\* lines 93-95: FileNotFoundError, sys.exit(1)
LoadServicesMissing ==
    /\ pc = "construct"
    /\ file_state = "missing"
    /\ Exit(1)
    /\ UNCHANGED <<args, env, call, services, counters, scanLocals, work, results, progress, history>>

\* lines 96-98: json.JSONDecodeError, sys.exit(1)
LoadServicesMalformed ==
    /\ pc = "construct"
    /\ file_state = "malformed"
    /\ Exit(1)
    /\ UNCHANGED <<args, env, call, services, counters, scanLocals, work, results, progress, history>>

\* line 87
Matching(loaded, wanted) ==
    SelectSeq(loaded, LAMBDA s : s.id = wanted \/ s.service = wanted)

\* lines 86-87
Filtered(loaded, wanted) == IF wanted # "*" THEN Matching(loaded, wanted) ELSE loaded

\* lines 88-90: the filter leaves nothing, sys.exit(1)
LoadServicesNoMatch ==
    /\ pc = "construct"
    /\ file_state = "ok"
    /\ service_arg # "*"
    /\ Filtered(FileContent(file_services), service_arg) = <<>>
    /\ Exit(1)
    /\ UNCHANGED <<args, env, call, services, counters, scanLocals, work, results, progress, history>>

\* lines 84-92, then line 331: scanner.scan() is entered
LoadServices ==
    /\ pc = "construct"
    /\ file_state = "ok"
    /\ ~(service_arg # "*" /\ Filtered(FileContent(file_services), service_arg) = <<>>)
    /\ services' = Filtered(FileContent(file_services), service_arg)
    /\ pc' = "scan"
    /\ UNCHANGED <<exit_code, args, env, call, counters, scanLocals, work, results, progress, history>>

\* main returns after scanner.scan(): exit status 0
MainReturn ==
    /\ pc = "returned"
    /\ Exit(0)
    /\ UNCHANGED <<args, env, call, services, counters, scanLocals, work, results, progress, history>>

\* ------------------------------------------------------------------------
\* scan, lines 256-307: the main thread
\* ------------------------------------------------------------------------
\* lines 257-258, 276-280
GenerateUrls ==
    /\ pc = "scan"
    /\ urls' = GenerateUrlList(services)
    /\ pc' = "batching"
    /\ UNCHANGED <<exit_code, args, env, call, services, counters, batch_size, url_batches, bi,
                   work, results, progress, history>>

\* lines 295-296
MakeBatches ==
    /\ pc = "batching"
    /\ batch_size' = BatchSize(Len(urls))
    /\ url_batches' = UrlBatches(urls, batch_size')
    /\ pc' = "loop"
    /\ UNCHANGED <<exit_code, args, env, call, services, counters, urls, bi, work, results,
                   progress, history>>

\* lines 298-299: executor.map submits every task of the next batch
SubmitBatch ==
    /\ pc = "loop"
    /\ bi < Len(url_batches)
    /\ bi' = bi + 1
    /\ work' = [p \in DOMAIN url_batches[bi'] |-> Queued(url_batches[bi'][p])]
    /\ submitted' = submitted \o url_batches[bi']
    /\ pc' = "wait"
    /\ UNCHANGED <<exit_code, args, env, call, services, counters, urls, batch_size, url_batches,
                   results, progress, collected, started, finished>>

\* [r for r in batch_results if r is not None]
NotNone(batch_results) == SelectSeq(batch_results, LAMBDA r : r # None)

\* lines 299-300 without waiting for the futures of the batch
CollectBatch_NoWait ==
    /\ pc = "wait"
    /\ results' = results \o NotNone([p \in DOMAIN work |-> work[p].result])
    /\ work' = <<>>
    /\ collected' = collected + 1
    /\ pc' = "loop"
    /\ UNCHANGED <<exit_code, args, env, call, services, counters, scanLocals, progress,
                   submitted, started, finished>>

\* the position in work of the future that completed k-th
CompletedAt(k) ==
    CHOOSE p \in DOMAIN work :
        Cardinality({q \in DOMAIN work : work[q].rank < work[p].rank}) = k - 1

\* lines 299-300 with the results taken as the futures complete
\* (concurrent.futures.as_completed) instead of in the order of the batch
CollectBatch_AsCompleted ==
    /\ pc = "wait"
    /\ \A p \in DOMAIN work : work[p].pc = "done"
    /\ results' = results \o NotNone([k \in DOMAIN work |-> work[CompletedAt(k)].result])
    /\ work' = <<>>
    /\ collected' = collected + 1
    /\ pc' = "loop"
    /\ UNCHANGED <<exit_code, args, env, call, services, counters, scanLocals, progress,
                   submitted, started, finished>>

\* lines 299-300: list(...) has every result of the batch, results.extend
CollectBatch ==
    /\ pc = "wait"
    /\ \A p \in DOMAIN work : work[p].pc = "done"
    /\ results' = results \o NotNone([p \in DOMAIN work |-> work[p].result])
    /\ work' = <<>>
    /\ collected' = collected + 1
    /\ pc' = "loop"
    /\ UNCHANGED <<exit_code, args, env, call, services, counters, scanLocals, progress,
                   submitted, started, finished>>

\* the for loop of line 298 is exhausted, the executor and the progress close
EndBatches ==
    /\ pc = "loop"
    /\ bi = Len(url_batches)
    /\ pc' = "output"
    /\ UNCHANGED <<exit_code, args, env, call, services, counters, scanLocals, work, results,
                   progress, history>>

\* lines 302-307: the results are printed, scan returns
Output ==
    /\ pc = "output"
    /\ pc' = "returned"
    /\ UNCHANGED <<exit_code, args, env, call, services, counters, scanLocals, work, results,
                   progress, history>>

\* ------------------------------------------------------------------------
\* scan.process_url and _check_endpoint: the worker threads
\* ------------------------------------------------------------------------
WorkerFrame == <<pc, exit_code, args, env, call, services, scanLocals, results>>

\* lines 283-286 with a thread for every submitted task instead of the pool
StartTask_NoPoolBound(p) ==
    /\ work[p].pc = "queued"
    /\ \A q \in 1..(p - 1) : work[q].pc # "queued"
    /\ started' = started \cup {work[p].task.url}
    /\ work' = [work EXCEPT ![p].pc = "request"]
    /\ UNCHANGED <<WorkerFrame, counters, progress, submitted, collected, finished>>

\* lines 283-286: a free worker thread takes the oldest queued task and
\* enters process_url: the delay, then the request
StartTask(p) ==
    /\ work[p].pc = "queued"
    /\ \A q \in 1..(p - 1) : work[q].pc # "queued"
    /\ Cardinality(Busy) < threads
    /\ started' = started \cup {work[p].task.url}
    /\ work' = [work EXCEPT ![p].pc = "request"]
    /\ UNCHANGED <<WorkerFrame, counters, progress, submitted, collected, finished>>

\* lines 104-111, 143: requests.request (or response.text) raises
ReceiveError(p) ==
    /\ work[p].pc = "request"
    /\ Respond(world, work[p].task.url).raised
    /\ work' = [work EXCEPT ![p].pc = "err_read"]
    /\ UNCHANGED <<WorkerFrame, counters, progress, history>>

\* lines 104-128: the response arrives and is classified
ReceiveResponse(p) ==
    LET resp == Respond(world, work[p].task.url)
        service == services[work[p].task.service]
        e == Exists(resp, service)
        v == Vulnerable(resp, service, skip_checks)
    IN /\ work[p].pc = "request"
       /\ ~resp.raised
       /\ work' = [work EXCEPT ![p].exists = e,
                               ![p].vulnerable = v,
                               ![p].status_code = resp.status_code,
                               ![p].pc = IF Populated(e, v) THEN "disc_read" ELSE "progress"]
       /\ UNCHANGED <<WorkerFrame, counters, progress, history>>

\* line 129, first half: self.discovered is loaded
ReadDiscovered(p) ==
    /\ work[p].pc = "disc_read"
    /\ work' = [work EXCEPT ![p].tmp = discovered, ![p].pc = "disc_write"]
    /\ UNCHANGED <<WorkerFrame, counters, progress, history>>

\* line 129, second half, and lines 130-141: the sum is stored, the result returned
WriteDiscovered(p) ==
    /\ work[p].pc = "disc_write"
    /\ discovered' = work[p].tmp + 1
    /\ work' = [work EXCEPT ![p].result = ProbeResult(work[p]), ![p].pc = "progress"]
    /\ UNCHANGED <<WorkerFrame, errors, progress, history>>

\* line 144, first half: self.errors is loaded
ReadErrors(p) ==
    /\ work[p].pc = "err_read"
    /\ work' = [work EXCEPT ![p].tmp = errors, ![p].pc = "err_write"]
    /\ UNCHANGED <<WorkerFrame, counters, progress, history>>

\* line 144, second half, and lines 145-147: the sum is stored, None returned
WriteErrors(p) ==
    /\ work[p].pc = "err_write"
    /\ errors' = work[p].tmp + 1
    /\ work' = [work EXCEPT ![p].result = None, ![p].pc = "progress"]
    /\ UNCHANGED <<WorkerFrame, discovered, progress, history>>

\* lines 288-292 with the progress advanced only for a task that has a result
UpdateProgress_ResultsOnly(p) ==
    /\ work[p].pc = "progress"
    /\ completed' = IF work[p].result # None THEN completed + 1 ELSE completed
    /\ shown' = discovered
    /\ work' = [work EXCEPT ![p].pc = "done", ![p].rank = completed']
    /\ finished' = finished \cup {work[p].task.url}
    /\ UNCHANGED <<WorkerFrame, counters, submitted, collected, started>>

\* lines 288-292: progress.update under the progress lock, process_url returns
UpdateProgress(p) ==
    /\ work[p].pc = "progress"
    /\ completed' = completed + 1
    /\ shown' = discovered
    /\ work' = [work EXCEPT ![p].pc = "done", ![p].rank = completed']
    /\ finished' = finished \cup {work[p].task.url}
    /\ UNCHANGED <<WorkerFrame, counters, submitted, collected, started>>

\* ------------------------------------------------------------------------
\* Specifications
\* ------------------------------------------------------------------------
Next ==
    \/ GenerateUrls
    \/ MakeBatches
    \/ SubmitBatch
    \/ CollectBatch
    \/ EndBatches
    \/ Output
    \/ \E p \in DOMAIN work : StartTask(p)
    \/ \E p \in DOMAIN work : ReceiveError(p)
    \/ \E p \in DOMAIN work : ReceiveResponse(p)
    \/ \E p \in DOMAIN work : ReadDiscovered(p)
    \/ \E p \in DOMAIN work : WriteDiscovered(p)
    \/ \E p \in DOMAIN work : ReadErrors(p)
    \/ \E p \in DOMAIN work : WriteErrors(p)
    \/ \E p \in DOMAIN work : UpdateProgress(p)

Spec == Init /\ [][Next]_vars

MainNext ==
    \/ MainWebhookMissing
    \/ MainConstruct
    \/ LoadServicesMissing
    \/ LoadServicesMalformed
    \/ LoadServicesNoMatch
    \/ LoadServices
    \/ MainReturn
    \/ Next

MainSpec == MainInit /\ [][MainNext]_vars

\* The main thread and the busy worker threads keep running, and every
\* blocking call (the delay, the request with its timeout) returns: a step
\* that is possible is eventually taken.
FairSpec == Spec /\ WF_vars(Next)

FairMainSpec == MainSpec /\ WF_vars(MainNext)

\* ------------------------------------------------------------------------
\* A method called on its own: every variable of the scan stays as
\* constructed, call holds the arguments and then the return value
\* ------------------------------------------------------------------------
Standalone ==
    /\ pc = "unit"
    /\ exit_code = 0
    /\ output_format = "table"
    /\ webhook_url = ""
    /\ service_arg = "*"
    /\ threads = 1
    /\ skip_checks = FALSE
    /\ file_state = "ok"
    /\ file_services = 0
    /\ world = "down"
    /\ services = <<>>
    /\ discovered = 0
    /\ errors = 0
    /\ urls = <<>>
    /\ batch_size = 0
    /\ url_batches = <<>>
    /\ bi = 0
    /\ work = <<>>
    /\ results = <<>>
    /\ completed = 0
    /\ shown = 0
    /\ submitted = <<>>
    /\ collected = 0
    /\ started = {}
    /\ finished = {}
    /\ sigint = FALSE

scanVars == <<pc, exit_code, args, env, services, counters, scanLocals, work, results,
              progress, history>>

\* ------------------------------------------------------------------------
\* _display_table, lines 219-254, _format_output, lines 186-217, and the
\* choice between them at the end of scan, lines 302-307
\* ------------------------------------------------------------------------
MaxResults == 3

\* values of r['service'] and r['url'] in the result lists handed to the output
ServiceNames == {"svcA", "svcB"}
UrlNames == {"url1", "url2"}

\* a result dict as _check_endpoint builds it (lines 130-141): exists is true
\* in every result, vulnerable tells two results of one endpoint apart
ResultDicts ==
    [kind : {"result"}, url : UrlNames, exists : {TRUE}, vulnerable : BOOLEAN,
     service : ServiceNames, status_code : {200}]

RECURSIVE ListsUpTo(_, _)
ListsUpTo(S, n) ==
    IF n = 0 THEN {<<>>}
    ELSE LET shorter == ListsUpTo(S, n - 1)
         IN shorter \cup {Append(l, x) : l \in {m \in shorter : Len(m) = n - 1}, x \in S}

\* lines 226-233 with the URL alone as the key
RECURSIVE UniqueResults_ByUrl(_, _)
UniqueResults_ByUrl(rs, seen) ==
    IF rs = <<>> THEN <<>>
    ELSE LET r == Head(rs)
             key == r.url
         IN IF key \notin seen
            THEN <<r>> \o UniqueResults_ByUrl(Tail(rs), seen \cup {key})
            ELSE UniqueResults_ByUrl(Tail(rs), seen)

\* lines 226-233: the loop over results with the set `seen`
RECURSIVE UniqueResults(_, _)
UniqueResults(rs, seen) ==
    IF rs = <<>> THEN <<>>
    ELSE LET r == Head(rs)
             key == <<r.service, r.url>>
         IN IF key \notin seen
            THEN <<r>> \o UniqueResults(Tail(rs), seen \cup {key})
            ELSE UniqueResults(Tail(rs), seen)

\* lines 236-240: the status cell
StatusCell(r) ==
    (IF r.exists THEN <<"EXISTS">> ELSE <<>>) \o (IF r.vulnerable THEN <<"VULNERABLE">> ELSE <<>>)

\* lines 242-247: a row of the table
TableRow(r) == [service |-> r.service, url |-> r.url, status |-> StatusCell(r)]

\* lines 219-254: what _display_table prints
DisplayTable(rs, disc, errs) ==
    LET unique_results == UniqueResults(rs, {})
    IN [rows |-> [i \in DOMAIN unique_results |-> TableRow(unique_results[i])],
        unique |-> Len(unique_results),
        total |-> disc,
        errors |-> IF errs > 0 THEN <<errs>> ELSE <<>>]

\* lines 186-217: the return value of _format_output and the payload it posts
FormatOutput(fmt, rs, delivers) ==
    IF rs = <<>> THEN [text |-> None, posted |-> None]
    ELSE CASE fmt = "json" -> [text |-> [format |-> "json", records |-> rs], posted |-> None]
           [] fmt = "jsonl" -> [text |-> [format |-> "jsonl", records |-> rs], posted |-> None]
           [] fmt = "csv" -> [text |-> [format |-> "csv", records |-> rs], posted |-> None]
           [] fmt = "webhook" ->
                  [text |-> [format |-> IF delivers THEN "sent" ELSE "error", records |-> <<>>],
                   posted |-> [findings |-> rs]]
           [] OTHER -> [text |-> None, posted |-> None]

\* lines 302-307
EmitResults(fmt, rs, disc, errs, delivers) ==
    IF fmt # "" /\ fmt # "table"
    THEN LET formatted_output == FormatOutput(fmt, rs, delivers)
         IN [table |-> None, printed |-> formatted_output.text,
             posted |-> formatted_output.posted]
    ELSE [table |-> DisplayTable(rs, disc, errs), printed |-> None, posted |-> None]

\* the end of a scan: any list of results, the counters as the scan left
\* them, any output format
OutputInit ==
    /\ Standalone
    /\ call \in {[fn |-> "output", pc |-> "call", fmt |-> f, rs |-> l, disc |-> d,
                  errs |-> e, delivers |-> w, ret |-> None] :
                     f \in OutputFormats, l \in ListsUpTo(ResultDicts, MaxResults),
                     d \in 0..MaxResults, e \in 0..1, w \in BOOLEAN}
    /\ call.disc \in {Len(call.rs), Len(call.rs) - 1}
    /\ (call.fmt # "webhook" => call.delivers)

CallOutput ==
    /\ call.fn = "output"
    /\ call.pc = "call"
    /\ call' = [call EXCEPT !.pc = "return",
                            !.ret = EmitResults(call.fmt, call.rs, call.disc, call.errs,
                                                call.delivers)]
    /\ UNCHANGED scanVars

OutputNext == CallOutput

OutputSpec == OutputInit /\ [][OutputNext]_vars

\* ------------------------------------------------------------------------
\* An interrupt signal during scan: KeyboardInterrupt in the main thread,
\* main, lines 329-334
\* ------------------------------------------------------------------------
\* the main thread is inside scanner.scan()
InScan == pc \in {"scan", "batching", "loop", "wait", "output"}

\* the `except Exception` of line 143 taking the interrupt for the error of a
\* request in flight, the main thread going on
Interrupt_AsTaskError ==
    /\ InScan
    /\ ~sigint
    /\ sigint' = TRUE
    /\ \E p \in DOMAIN work :
           /\ work[p].pc = "request"
           /\ work' = [work EXCEPT ![p].pc = "err_read"]
    /\ UNCHANGED <<pc, exit_code, args, file_state, file_services, world, call, services,
                   counters, scanLocals, results, progress, history>>

\* SIGINT arrives: Python raises KeyboardInterrupt in the main thread, at
\* whatever statement of scan it is executing; the worker threads go on.
\* KeyboardInterrupt is not an Exception, so no `except Exception` takes it.
Interrupt ==
    /\ InScan
    /\ ~sigint
    /\ sigint' = TRUE
    /\ pc' = "interrupted"
    /\ UNCHANGED <<exit_code, args, file_state, file_services, world, call, services,
                   counters, scanLocals, work, results, progress, history>>

\* line 299: the exception leaves executor.map, which cancels the futures of
\* the batch that no worker thread has taken
CancelFuture(p) ==
    /\ pc = "interrupted"
    /\ work[p].pc = "queued"
    /\ work' = [work EXCEPT ![p].pc = "cancelled"]
    /\ UNCHANGED <<WorkerFrame, counters, progress, history>>

\* line 282: leaving the `with` block joins the worker threads; lines 332-334:
\* main prints "Scan interrupted by user" and calls sys.exit(1)
MainInterrupted ==
    /\ pc = "interrupted"
    /\ \A p \in DOMAIN work : work[p].pc \in {"done", "cancelled"}
    /\ Exit(1)
    /\ UNCHANGED <<args, env, call, services, counters, scanLocals, work, results, progress,
                   history>>

\* a constructed scanner whose scan may be interrupted
InterruptInit ==
    /\ Fresh
    /\ pc = "scan"
    /\ output_format = "table"
    /\ webhook_url = ""
    /\ service_arg = "*"
    /\ file_state = "ok"
    /\ world = "sample"
    /\ file_services \in 0..MaxServices
    /\ services = FileContent(file_services)
    /\ threads \in 1..MaxThreads
    /\ skip_checks = FALSE

InterruptNext ==
    \/ Next
    \/ MainReturn
    \/ Interrupt
    \/ \E p \in DOMAIN work : CancelFuture(p)
    \/ MainInterrupted

InterruptSpec == InterruptInit /\ [][InterruptNext]_vars

FairInterruptSpec == InterruptSpec /\ WF_vars(InterruptNext)

\* ------------------------------------------------------------------------
\* generate_permutations, lines 149-165.  A string is the sequence of its
\* pieces: each piece is a word of the vocabularies, "acme", "." or "-".
\* No word is the beginning of another, so two sequences of pieces spell
\* the same string only when they are equal.
\* ------------------------------------------------------------------------
MaxNameLen == 3

SUFFIXES ==
    <<"dev", "staging", "stage", "test", "prod", "qa", "internal", "corp", "team",
      "app", "api", "admin", "us", "eu", "asia">>

PREFIXES == <<"dev", "staging", "test", "qa", "admin", "internal">>

\* the pieces base names are made of
NameTokens == {"acme", "dev", "qa", ".", "-"}

\* self.target: any string of up to MaxNameLen pieces, the empty one included
BaseNames == ListsUpTo(NameTokens, MaxNameLen)

\* lines 157-159: the strings added for the suffixes, in the order of the adds
SuffixAdds(base_name) ==
    [i \in 1..(2 * Len(SUFFIXES)) |->
        IF i % 2 = 1
        THEN base_name \o <<"-", SUFFIXES[(i + 1) \div 2]>>
        ELSE base_name \o <<".", SUFFIXES[i \div 2]>>]

\* lines 161-163: the strings added for the prefixes, in the order of the adds
PrefixAdds(base_name) ==
    [i \in 1..(2 * Len(PREFIXES)) |->
        IF i % 2 = 1
        THEN <<PREFIXES[(i + 1) \div 2]>> \o base_name
        ELSE <<PREFIXES[i \div 2], ".">> \o base_name]

\* lines 154-163: every string handed to permutations.add
PermutationAdds(base_name) == <<base_name>> \o SuffixAdds(base_name) \o PrefixAdds(base_name)

\* set.add for each string in turn; the set is kept as the list of its members
\* in the order they came in (list(set) gives them in an order the claims do
\* not depend on)
RECURSIVE AddAll(_, _)
AddAll(adds, members) ==
    IF adds = <<>> THEN members
    ELSE AddAll(Tail(adds),
                IF \E i \in DOMAIN members : members[i] = Head(adds)
                THEN members
                ELSE Append(members, Head(adds)))

\* lines 149-165 with a list in place of the set
GeneratePermutations_NoSet(base_name) == PermutationAdds(base_name)

\* lines 149-165
GeneratePermutations(base_name) == AddAll(PermutationAdds(base_name), <<>>)

PermutationsInit ==
    /\ Standalone
    /\ call \in {[fn |-> "generate_permutations", pc |-> "call", base_name |-> b,
                  ret |-> <<>>] : b \in BaseNames}

CallGeneratePermutations ==
    /\ call.fn = "generate_permutations"
    /\ call.pc = "call"
    /\ call' = [call EXCEPT !.pc = "return", !.ret = GeneratePermutations(call.base_name)]
    /\ UNCHANGED scanVars

PermutationsNext == CallGeneratePermutations

PermutationsSpec == PermutationsInit /\ [][PermutationsNext]_vars

\* ------------------------------------------------------------------------
\* generate_urls, lines 167-184, on strings.  A URL is the sequence of its
\* pieces: "http", "https", ":", "/", "{TARGET}", the pieces of a host name
\* and the words of a path.
\* ------------------------------------------------------------------------
MaxSlashes == 2

HttpScheme == <<"http", ":", "/", "/">>
HttpsScheme == <<"https", ":", "/", "/">>

Slashes(n) == [i \in 1..n |-> "/"]

\* str.replace('{TARGET}', domain)
RECURSIVE ReplaceTarget(_, _)
ReplaceTarget(s, domain) ==
    IF s = <<>> THEN <<>>
    ELSE (IF Head(s) = "{TARGET}" THEN domain ELSE <<Head(s)>>)
             \o ReplaceTarget(Tail(s), domain)

\* str.startswith(prefix)
StartsWith(s, prefix) ==
    Len(s) >= Len(prefix) /\ SubSeq(s, 1, Len(prefix)) = prefix

\* str.rstrip('/')
RECURSIVE RStripSlash(_)
RStripSlash(s) ==
    IF s # <<>> /\ s[Len(s)] = "/" THEN RStripSlash(SubSeq(s, 1, Len(s) - 1)) ELSE s

\* str.lstrip('/')
RECURSIVE LStripSlash(_)
LStripSlash(s) ==
    IF s # <<>> /\ Head(s) = "/" THEN LStripSlash(Tail(s)) ELSE s

\* lines 176-177 with the test left out: the scheme is always prepended
NormalizeScheme_Always(url) == HttpsScheme \o url

\* lines 176-177
NormalizeScheme(url) ==
    IF ~(StartsWith(url, HttpScheme) \/ StartsWith(url, HttpsScheme))
    THEN HttpsScheme \o url
    ELSE url

\* lines 175-178
ExpandUrl(baseURL, domain, path) ==
    LET url == NormalizeScheme(ReplaceTarget(baseURL, domain))
    IN RStripSlash(url) \o <<"/">> \o LStripSlash(path)

\* lines 173-179 for the k-th service: for domain in permutations, for path in
\* service['request']['path']
UrlStringsOfService(svcs, k, permutations) ==
    LET np == Len(svcs[k].path)
    IN [m \in 1..(Len(permutations) * np) |->
           [url |-> ExpandUrl(svcs[k].baseURL, permutations[((m - 1) \div np) + 1],
                              svcs[k].path[((m - 1) % np) + 1]),
            service |-> k]]

RECURSIVE UrlStringsUpTo(_, _, _)
UrlStringsUpTo(svcs, k, permutations) ==
    IF k = 0 THEN <<>>
    ELSE UrlStringsUpTo(svcs, k - 1, permutations)
             \o UrlStringsOfService(svcs, k, permutations)

\* lines 167-184
GenerateUrlStrings(svcs, target) ==
    UrlStringsUpTo(svcs, Len(svcs), GeneratePermutations(target))

\* the parts templates are written from: an optional scheme, a host pattern,
\* trailing slashes; paths with leading slashes
Schemes == {<<>>, HttpScheme, HttpsScheme}
HostPatterns == {<<"{TARGET}">>, <<"{TARGET}", ".", "x">>, <<"x">>}
PathRests == {<<>>, <<"p">>, <<"p", "/">>, <<"p", "/", "q">>}

PathParts == [lead : 0..MaxSlashes, rest : PathRests]

\* no path, one path, the same path twice, two different paths
PathPartLists ==
    {<<>>} \cup {<<p>> : p \in PathParts} \cup {<<p, p>> : p \in PathParts}
        \cup {<<p, [lead |-> 1, rest |-> <<"q">>]>> : p \in PathParts}

TemplateParts ==
    [scheme : Schemes, host : HostPatterns, trail : 0..MaxSlashes, paths : PathPartLists]

\* service['request'] of the template written from the parts
RequestOf(parts) ==
    [baseURL |-> parts.scheme \o parts.host \o Slashes(parts.trail),
     path |-> [j \in DOMAIN parts.paths |->
                  Slashes(parts.paths[j].lead) \o parts.paths[j].rest]]

\* a second template of a library of two
SecondTemplate ==
    [scheme |-> <<>>, host |-> <<"x", ".", "{TARGET}">>, trail |-> 1,
     paths |-> <<[lead |-> 0, rest |-> <<"p">>], [lead |-> 2, rest |-> <<"q">>]>>]

UrlsInit ==
    /\ Standalone
    /\ call \in {[fn |-> "generate_urls", pc |-> "call", target |-> t, parts |-> ps,
                  services |-> [k \in DOMAIN ps |-> RequestOf(ps[k])], ret |-> <<>>] :
                     t \in {<<"acme">>, <<"dev">>},
                     ps \in {<<>>} \cup {<<p>> : p \in TemplateParts}
                              \cup {<<p, SecondTemplate>> : p \in TemplateParts}}

CallGenerateUrls ==
    /\ call.fn = "generate_urls"
    /\ call.pc = "call"
    /\ call' = [call EXCEPT !.pc = "return",
                            !.ret = GenerateUrlStrings(call.services, call.target)]
    /\ UNCHANGED scanVars

UrlsNext == CallGenerateUrls

UrlsSpec == UrlsInit /\ [][UrlsNext]_vars

\* ------------------------------------------------------------------------
\* The headers of a request: __init__, lines 48 and 59-60, and
\* _check_endpoint, line 107.  A dict is a function from its keys.
\* ------------------------------------------------------------------------
HeaderKeys == {"User-Agent", "Accept", "X-Token"}
HeaderValues == {"v1", "v2"}

\* the dicts over the header keys
HeaderDicts == UNION {[D -> HeaderValues] : D \in SUBSET HeaderKeys}

EmptyDict == [k \in {} |-> ""]

USER_AGENTS == <<"Chrome/Windows", "Chrome/Macintosh", "Firefox/Windows">>

\* {**d, **e}: the items of d, then the items of e over them
DictMerge(d, e) ==
    [k \in DOMAIN d \cup DOMAIN e |-> IF k \in DOMAIN e THEN e[k] ELSE d[k]]

\* lines 48 and 59-60: self.headers from the parsed -headers argument, with the
\* user agent random.choice picked when the argument names none
InitHeaders(parsed, choice) ==
    IF "User-Agent" \notin DOMAIN parsed
    THEN DictMerge(parsed, [k \in {"User-Agent"} |-> USER_AGENTS[choice]])
    ELSE parsed

\* service.get('request', {}).get('headers', {})
TemplateHeaders(service) ==
    IF service.request.has_headers THEN service.request.headers ELSE EmptyDict

\* line 107 with the two dicts in the other order
RequestHeaders_GlobalWins(headers, service) == DictMerge(TemplateHeaders(service), headers)

\* line 107: {**self.headers, **service.get('request', {}).get('headers', {})}
RequestHeaders(headers, service) == DictMerge(headers, TemplateHeaders(service))

\* the service['request'] sections the headers are merged with
HeaderTemplates ==
    {[request |-> [has_headers |-> FALSE, headers |-> EmptyDict]]}
        \cup {[request |-> [has_headers |-> TRUE, headers |-> h]] : h \in HeaderDicts}

HeadersInit ==
    /\ Standalone
    /\ call \in {[fn |-> "request_headers", pc |-> "call",
                  headers |-> InitHeaders(parsed, choice), service |-> s,
                  ret |-> EmptyDict] :
                     parsed \in HeaderDicts, choice \in DOMAIN USER_AGENTS,
                     s \in HeaderTemplates}

CallRequestHeaders ==
    /\ call.fn = "request_headers"
    /\ call.pc = "call"
    /\ call' = [call EXCEPT !.pc = "return",
                            !.ret = RequestHeaders(call.headers, call.service)]
    /\ UNCHANGED scanVars

HeadersNext == CallRequestHeaders

HeadersSpec == HeadersInit /\ [][HeadersNext]_vars

\* ------------------------------------------------------------------------
\* Properties
\* ------------------------------------------------------------------------
AllUrls == {urls[i].url : i \in DOMAIN urls}

\* the request for this URL ends in a transport error
Fails(url) == Respond(world, url).raised

FailingUrls == {u \in AllUrls : Fails(u)}

ResultUrls == {results[i].url : i \in DOMAIN results}

\* scan() has run to its end
ScanFinished == pc = "returned"

\* C1: when every probe of a scan raises a transport error, the error counter
\* equals the number of tasks once the scan has finished, whatever the pool
\* size and the interleaving of the workers.
C1_ErrorsEqualFailedTasks ==
    (ScanFinished /\ world = "down") => errors = Len(urls)

\* C2: once the scan has finished, the discovered counter equals the number
\* of results the scan collected.
C2_DiscoveredEqualsResults ==
    ScanFinished => discovered = Len(results)

\* C3: no step lowers the discovered counter or the error counter.
C3_CountersNeverDecrease ==
    [][discovered' >= discovered /\ errors' >= errors]_vars

\* C4: a failing probe does not abort the scan: once the scan has finished,
\* every task has been processed, no failing task has a result, every failing
\* task is counted in the error counter, and the results are those of the
\* non-failing tasks whose response matches.
C4_FailuresCountedScanCompletes ==
    ScanFinished =>
        /\ finished = AllUrls
        /\ ResultUrls \cap FailingUrls = {}
        /\ errors = Cardinality(FailingUrls)
        /\ \A i \in DOMAIN urls :
               (~Fails(urls[i].url)
                /\ Exists(Respond(world, urls[i].url), services[urls[i].service]))
               => urls[i].url \in ResultUrls

\* the clauses of C4 other than the tally
NoAbort ==
    ScanFinished =>
        /\ finished = AllUrls
        /\ ResultUrls \cap FailingUrls = {}
        /\ (FailingUrls # {} => errors >= 1)
        /\ \A i \in DOMAIN urls :
               (~Fails(urls[i].url)
                /\ Exists(Respond(world, urls[i].url), services[urls[i].service]))
               => urls[i].url \in ResultUrls

\* the configuration errors of a run
WebhookUrlMissing == output_format = "webhook" /\ webhook_url = ""
TemplateSourceBad == file_state \in {"missing", "malformed"}
FilterEmpty ==
    /\ file_state = "ok"
    /\ service_arg # "*"
    /\ \A k \in 1..file_services :
           Catalogue(k).id # service_arg /\ Catalogue(k).service # service_arg
ConfigError == WebhookUrlMissing \/ TemplateSourceBad \/ FilterEmpty

\* scan() ran through every batch
NormalCompletion ==
    /\ batch_size >= 1
    /\ collected = Len(url_batches)
    /\ finished = AllUrls

\* C5: every configuration error ends the process with exit code 1 before any
\* task is started, and exit code 0 is reached only by a scan that completed.
C5_ConfigErrorsExitOne ==
    pc = "exited" =>
        /\ (ConfigError => exit_code = 1 /\ started = {})
        /\ (exit_code = 0 => ~ConfigError /\ NormalCompletion)

\* C5 without the webhook case
ConfigErrorsOtherThanWebhook ==
    (pc = "exited" /\ ~WebhookUrlMissing) =>
        /\ (ConfigError => exit_code = 1 /\ started = {})
        /\ (exit_code = 0 => ~ConfigError /\ NormalCompletion)

\* u occurs in text: text = pre \o u \o post for some pre and post
Substring(u, text) ==
    \E i \in 1..(Len(text) + 1) : \E j \in (i - 1)..Len(text) : SubSeq(text, i, j) = u

\* the status codes a template accepts
AcceptableCodes(service) ==
    IF service.statusCode.isList
    THEN {service.statusCode.codes[k] : k \in DOMAIN service.statusCode.codes}
    ELSE {service.statusCode.code}

HasVulnerabilityFingerprint(resp, service) ==
    \E k \in DOMAIN service.fingerprints : Substring(service.fingerprints[k], resp.text)

HasExistenceFingerprint(resp, service) ==
    \E k \in DOMAIN service.detectionFingerprints :
        Substring(service.detectionFingerprints[k], resp.text)

ResponseTo(p) == Respond(world, work[p].task.url)
ServiceOf(p) == services[work[p].task.service]

\* the task at position p has received a response and classified it
Classified(p) ==
    /\ work[p].pc \in {"disc_read", "disc_write", "progress", "done"}
    /\ ~ResponseTo(p).raised

\* C6: the vulnerable flag a probe computes is true exactly when exists is
\* true, skip_checks is off, the status is the template's code or one of its
\* codes, and a vulnerability fingerprint is a substring of the body.
C6_VulnerableIff ==
    \A p \in DOMAIN work :
        Classified(p) =>
            (work[p].vulnerable <=>
                /\ work[p].exists
                /\ ~skip_checks
                /\ ResponseTo(p).status_code \in AcceptableCodes(ServiceOf(p))
                /\ HasVulnerabilityFingerprint(ResponseTo(p), ServiceOf(p)))

\* a probe against a template with a list of codes found vulnerable
C6_Witness ==
    \E p \in DOMAIN work :
        /\ Classified(p)
        /\ work[p].vulnerable
        /\ ServiceOf(p).statusCode.isList

\* skip_checks is set and every other condition of vulnerability holds
C6_SkipCase ==
    \E p \in DOMAIN work :
        /\ Classified(p)
        /\ skip_checks
        /\ work[p].exists
        /\ ResponseTo(p).status_code \in AcceptableCodes(ServiceOf(p))
        /\ HasVulnerabilityFingerprint(ResponseTo(p), ServiceOf(p))

\* C7: every result a probe has returned and every result the scan has
\* collected satisfies vulnerable => exists.
C7_VulnerableImpliesExists ==
    /\ \A i \in DOMAIN results : results[i].vulnerable => results[i].exists
    /\ \A p \in DOMAIN work :
           work[p].result # None => (work[p].result.vulnerable => work[p].result.exists)

\* a vulnerable result has been collected
C7_Witness ==
    \E i \in DOMAIN results : results[i].vulnerable /\ results[i].exists

\* the task at position p has a response without any existence fingerprint
NoMatch(p) ==
    /\ ~ResponseTo(p).raised
    /\ ~HasExistenceFingerprint(ResponseTo(p), ServiceOf(p))

C8_Returned ==
    /\ \A p \in DOMAIN work :
           (work[p].pc \in {"progress", "done"} /\ ~ResponseTo(p).raised) =>
               /\ (work[p].result # None) <=> (work[p].exists \/ work[p].vulnerable)
               /\ NoMatch(p) => work[p].result = None
    /\ \A i \in DOMAIN results :
           HasExistenceFingerprint(Respond(world, results[i].url),
                                   services[results[i].service])

C8_Step ==
    \A p \in DOMAIN work :
        (NoMatch(p) /\ p \in DOMAIN work' /\ work'[p] # work[p]) =>
            (discovered' = discovered /\ errors' = errors)

\* C8: a probe returns a result exactly when exists or vulnerable is true; a
\* response without an existence fingerprint gives None, never reaches the
\* results, and no step of its task changes the discovered or error counter.
C8_PopulatedIffMatch == []C8_Returned /\ [][C8_Step]_vars

\* a task whose response carries a vulnerability fingerprint and an accepted
\* status but no existence fingerprint has returned None
C8_Witness ==
    \E p \in DOMAIN work :
        /\ work[p].pc = "done"
        /\ NoMatch(p)
        /\ HasVulnerabilityFingerprint(ResponseTo(p), ServiceOf(p))
        /\ ResponseTo(p).status_code \in AcceptableCodes(ServiceOf(p))
        /\ work[p].result = None

RECURSIVE Flatten(_)
Flatten(lists) ==
    IF lists = <<>> THEN <<>> ELSE Head(lists) \o Flatten(Tail(lists))

\* the batches have been made
Batched == pc \in {"loop", "wait", "output", "returned"}

C9_Batches ==
    Batched =>
        /\ batch_size >= 1 /\ batch_size <= 10
        /\ (Len(urls) < 20 => batch_size = 1)
        /\ (Len(urls) >= 20 /\ Len(urls) < 200 => batch_size = Len(urls) \div 20)
        /\ (Len(urls) >= 200 => batch_size = 10)
        /\ Flatten(url_batches) = urls
        /\ \A k \in DOMAIN url_batches :
               Len(url_batches[k]) >= 1 /\ Len(url_batches[k]) <= batch_size
        /\ (bi = 0 =>
               \A i \in DOMAIN urls :
                   Cardinality({k \in DOMAIN url_batches :
                                   \E p \in DOMAIN url_batches[k] :
                                       url_batches[k][p] = urls[i]}) = 1)

\* C9: the batch size is len(urls) div 20 clamped to 1..10, the batches
\* partition the task list, and a scan that starts ends with every task
\* submitted and processed.
C9_BatchingTerminates ==
    /\ []C9_Batches
    /\ (pc = "scan") ~> (pc = "returned" /\ submitted = urls /\ finished = AllUrls)

\* a scan of more than 200 tasks has ended with batches of 10
C9_Witness ==
    /\ pc = "returned"
    /\ Len(urls) \div 20 > 10
    /\ batch_size = 10
    /\ submitted = urls

\* C10: when a task of batch k+1 has been started, every task of batch k has
\* returned and the results of batch k have been collected.
C10_BatchesInTurn ==
    \A k \in 1..(Len(url_batches) - 1) :
        (\E p \in DOMAIN url_batches[k + 1] : url_batches[k + 1][p].url \in started) =>
            /\ \A p \in DOMAIN url_batches[k] : url_batches[k][p].url \in finished
            /\ collected >= k
            /\ \A p \in DOMAIN url_batches[k] :
                   LET task == url_batches[k][p]
                   IN (~Fails(task.url)
                       /\ HasExistenceFingerprint(Respond(world, task.url),
                                                  services[task.service]))
                      => task.url \in ResultUrls

\* two workers are busy with tasks of the second batch
C10_Witness ==
    /\ bi = 2
    /\ Cardinality(Busy) = 2
    /\ results # <<>>

\* C11: the number of tasks a worker thread is processing (delay, request,
\* classification, counter update or progress update under way) never exceeds
\* the configured thread count.
C11_PoolBound == Cardinality(Busy) <= threads

\* both threads of a pool of two are busy while a task of the batch waits
C11_Witness ==
    /\ threads = 2
    /\ Cardinality(Busy) = threads
    /\ \E p \in DOMAIN work : work[p].pc = "queued"

Key(r) == <<r.service, r.url>>

\* positions of the results that no earlier result shares its key with
FirstOccurrences(rs) ==
    {i \in DOMAIN rs : \A j \in 1..(i - 1) : Key(rs[j]) # Key(rs[i])}

\* the k-th smallest member of a set of numbers
Nth(S, k) == CHOOSE i \in S : Cardinality({j \in S : j < i}) = k - 1

Returned(fn) == call.fn = fn /\ call.pc = "return"

\* C12: the table has one row per distinct (service name, url) pair, that of
\* the pair's first result, in first-seen order, and prints the discovered
\* counter as it is next to the number of rows; json, jsonl, csv and the
\* webhook payload carry every result, duplicates included.
C12_TableDedupOthersRaw ==
    Returned("output") =>
        LET first == FirstOccurrences(call.rs)
        IN /\ call.fmt = "table" =>
                  /\ Len(call.ret.table.rows) = Cardinality(first)
                  /\ call.ret.table.unique = Cardinality(first)
                  /\ \A k \in 1..Cardinality(first) :
                         call.ret.table.rows[k] = TableRow(call.rs[Nth(first, k)])
                  /\ call.ret.table.total = call.disc
           /\ (call.fmt \in {"json", "jsonl", "csv"} /\ call.rs # <<>>) =>
                  call.ret.printed.records = call.rs
           /\ (call.fmt = "webhook" /\ call.rs # <<>>) =>
                  call.ret.posted.findings = call.rs

\* the table of [(svcA,url1), (svcA,url1) with another status, (svcB,url1)]
\* has been printed
C12_Witness ==
    /\ Returned("output")
    /\ call.fmt = "table"
    /\ Len(call.rs) = 3
    /\ Key(call.rs[1]) = <<"svcA", "url1">>
    /\ Key(call.rs[2]) = <<"svcA", "url1">>
    /\ call.rs[2] # call.rs[1]
    /\ Key(call.rs[3]) = <<"svcB", "url1">>
    /\ call.ret.table.unique = 2
    /\ call.disc = 3

C13_Step ==
    /\ (~sigint /\ sigint') => (errors' = errors /\ pc' = "interrupted")
    /\ sigint => /\ submitted' = submitted
                 /\ bi' = bi
                 /\ results' = results
                 /\ pc' \in {"interrupted", "exited"}

\* C13: an interrupt received during a scan is not counted as a task's error;
\* from then on no batch is submitted, and the process ends with exit status
\* 1, while a scan that is not interrupted ends with exit status 0.
C13_InterruptExitsOne ==
    /\ [][C13_Step]_vars
    /\ [](pc = "exited" => (exit_code = IF sigint THEN 1 ELSE 0))
    /\ (sigint ~> (pc = "exited" /\ exit_code = 1))

\* the process has ended with status 1 after an interrupt that arrived while
\* a request was in flight and a task of the batch was still queued; that
\* task was cancelled and later batches were never submitted
C13_Witness ==
    /\ pc = "exited"
    /\ exit_code = 1
    /\ sigint
    /\ \E p \in DOMAIN work : work[p].pc = "cancelled"
    /\ \E p \in DOMAIN work : work[p].pc = "done"
    /\ Len(submitted) < Len(urls)

SuffixWords == {SUFFIXES[i] : i \in DOMAIN SUFFIXES}
PrefixWords == {PREFIXES[i] : i \in DOMAIN PREFIXES}

\* the ways to form an entry: the base itself, a separator and a suffix, a
\* prefix with or without a dot
Forms ==
    {<<"base", "", "">>}
        \cup {<<"suffix", sep, s>> : sep \in {"-", "."}, s \in SuffixWords}
        \cup {<<"prefix", sep, p>> : sep \in {"", "."}, p \in PrefixWords}

\* the string a form gives for base B
Formed(f, B) ==
    CASE f[1] = "base" -> B
      [] f[1] = "suffix" -> B \o <<f[2], f[3]>>
      [] f[1] = "prefix" -> IF f[2] = "" THEN <<f[3]>> \o B ELSE <<f[3], f[2]>> \o B

\* a collision: a form whose string another form before it (in some fixed
\* order of the forms) gives too; counted as forms minus distinct strings
Collisions(B) == Cardinality(Forms) - Cardinality({Formed(f, B) : f \in Forms})

\* C14: the permutations of a base name B contain B, no string twice, and
\* 1 + 2*|suffixes| + 2*|prefixes| strings less the collisions; every entry
\* other than B is B-suffix, B.suffix, prefixB or prefix.B.
C14_Permutations ==
    Returned("generate_permutations") =>
        LET B == call.base_name
            perms == call.ret
        IN /\ \E i \in DOMAIN perms : perms[i] = B
           /\ \A i, j \in DOMAIN perms : i # j => perms[i] # perms[j]
           /\ Len(perms) = 1 + 2 * NumSuffixes + 2 * NumPrefixes - Collisions(B)
           /\ \A i \in DOMAIN perms :
                  perms[i] # B =>
                      \E f \in Forms : f[1] # "base" /\ perms[i] = Formed(f, B)

\* the permutations of "dev": dev.dev arises from the suffix and from the
\* prefix, 42 strings remain
C14_Witness ==
    /\ Returned("generate_permutations")
    /\ call.base_name = <<"dev">>
    /\ Collisions(call.base_name) = 1
    /\ Len(call.ret) = NumPerms - 1

\* number of tasks of the templates before the k-th
RECURSIVE TasksBefore(_, _, _)
TasksBefore(svcs, k, n) ==
    IF k <= 1 THEN 0 ELSE TasksBefore(svcs, k - 1, n) + n * Len(svcs[k - 1].path)

\* the URL of template parts, a domain and the j-th path: the scheme of the
\* parts or https, the host, one slash, the path without its leading slashes
ExpectedUrl(parts, domain, j) ==
    (IF parts.scheme = <<>> THEN HttpsScheme ELSE parts.scheme)
        \o ReplaceTarget(parts.host, domain) \o <<"/">> \o parts.paths[j].rest

\* the number of times one of the two schemes begins at some position of s
SchemeCount(s) ==
    Cardinality({i \in 1..Len(s) :
                    \/ StartsWith(SubSeq(s, i, Len(s)), HttpScheme)
                    \/ StartsWith(SubSeq(s, i, Len(s)), HttpsScheme)})

\* C15: generate_urls gives one task per (template, permutation, path), each
\* with the URL made of the base URL's own scheme, or https when it has none,
\* the host and the path joined by exactly one slash; normalizing the scheme
\* a second time changes nothing.
C15_UrlExpansion ==
    Returned("generate_urls") =>
        LET perms == GeneratePermutations(call.target)
            n == Len(perms)
        IN /\ Len(call.ret) = TasksBefore(call.services, Len(call.services) + 1, n)
           /\ \A k \in DOMAIN call.services :
                  \A d \in 1..n :
                      /\ LET u == ReplaceTarget(call.services[k].baseURL, perms[d])
                         IN /\ NormalizeScheme(NormalizeScheme(u)) = NormalizeScheme(u)
                            /\ SchemeCount(NormalizeScheme(u)) = 1
                            /\ (call.parts[k].scheme # <<>> => NormalizeScheme(u) = u)
                      /\ \A j \in DOMAIN call.services[k].path :
                             LET np == Len(call.services[k].path)
                                 i == TasksBefore(call.services, k, n) + (d - 1) * np + j
                             IN /\ call.ret[i].service = k
                                /\ call.ret[i].url = ExpectedUrl(call.parts[k], perms[d], j)

\* two templates, one with an http base URL ending in slashes and a path
\* beginning with slashes, the other without a scheme: every combination has
\* its task, http is kept, https is added
C15_Witness ==
    /\ Returned("generate_urls")
    /\ Len(call.services) = 2
    /\ call.parts[1].scheme = HttpScheme
    /\ call.parts[1].trail = 2
    /\ Len(call.parts[1].paths) = 2
    /\ call.parts[1].paths[1].lead = 2
    /\ call.parts[2].scheme = <<>>
    /\ Len(call.ret) = 4 * NumPerms
    /\ StartsWith(call.ret[1].url, HttpScheme)
    /\ StartsWith(call.ret[Len(call.ret)].url, HttpsScheme)

\* C16: the request carries every key of the global headers and of the
\* template's headers and no other; a key of both has the template's value, a
\* key of one of them has the value it has there.
C16_TemplateHeadersOverride ==
    Returned("request_headers") =>
        LET global == call.headers
            template == TemplateHeaders(call.service)
            sent == call.ret
        IN /\ DOMAIN sent = DOMAIN global \cup DOMAIN template
           /\ \A k \in DOMAIN global \cap DOMAIN template : sent[k] = template[k]
           /\ \A k \in DOMAIN global \ DOMAIN template : sent[k] = global[k]
           /\ \A k \in DOMAIN template \ DOMAIN global : sent[k] = template[k]

\* a request whose headers hold a key of both dicts with two different
\* values, the default user agent of the global headers alone, and a key of
\* the template alone
C16_Witness ==
    /\ Returned("request_headers")
    /\ call.service.request.has_headers
    /\ "Accept" \in DOMAIN call.headers \cap DOMAIN call.service.request.headers
    /\ call.headers["Accept"] # call.service.request.headers["Accept"]
    /\ call.ret["Accept"] = call.service.request.headers["Accept"]
    /\ "User-Agent" \notin DOMAIN call.service.request.headers
    /\ call.ret["User-Agent"] = USER_AGENTS[2]
    /\ "X-Token" \in DOMAIN call.service.request.headers \ DOMAIN call.headers

\* the task at position p stores its sum into self.discovered and returns its
\* result in this step
ReturnsResult(p) ==
    /\ p \in DOMAIN work /\ p \in DOMAIN work'
    /\ work[p].pc = "disc_write" /\ work'[p].pc = "progress"

\* the task at position p stores its sum into self.errors and returns None in
\* this step
ReturnsError(p) ==
    /\ p \in DOMAIN work /\ p \in DOMAIN work'
    /\ work[p].pc = "err_write" /\ work'[p].pc = "progress"

\* the outcome of a task whose _check_endpoint has returned
OutcomeKnown(p) == work[p].pc \in {"progress", "done"}

C17_Outcomes ==
    \A p \in DOMAIN work :
        OutcomeKnown(p) =>
            /\ Fails(work[p].task.url) => work[p].result = None
            /\ (work[p].result # None) <=>
                   (~Fails(work[p].task.url) /\ HasExistenceFingerprint(ResponseTo(p), ServiceOf(p)))

C17_Step ==
    /\ \A p \in DOMAIN work :
           /\ ReturnsResult(p) =>
                  /\ discovered' = discovered + 1
                  /\ errors' = errors
                  /\ work'[p].result # None
           /\ ReturnsError(p) =>
                  /\ errors' = errors + 1
                  /\ discovered' = discovered
                  /\ work'[p].result = None
    /\ (discovered' # discovered \/ errors' # errors) =>
           \E p \in DOMAIN work : ReturnsResult(p) \/ ReturnsError(p)

\* C17: a task ends in one of three ways: it returns a result and the
\* discovered counter goes up by one; it returns None and the error counter
\* goes up by one; it returns None and no counter changes.  No task changes
\* both counters and none changes the discovered counter without a result.
C17_ThreeOutcomes == []C17_Outcomes /\ [][C17_Step]_vars

\* the paths of C17 without the amounts: a counter changes only in the step
\* in which one task returns, the discovered counter with a result, the error
\* counter with None, and every task takes one path
OneOutcomePerTask ==
    /\ []C17_Outcomes
    /\ [][/\ \A p \in DOMAIN work :
                /\ ReturnsResult(p) => (errors' = errors /\ work'[p].result # None)
                /\ ReturnsError(p) => (discovered' = discovered /\ work'[p].result = None)
          /\ (discovered' # discovered \/ errors' # errors) =>
                 \E p \in DOMAIN work : ReturnsResult(p) \/ ReturnsError(p)]_vars

\* the place of a URL in the task list
PositionOf(u) == CHOOSE i \in DOMAIN urls : urls[i].url = u

\* the results are in the order of their tasks
InTaskOrder(rs) ==
    \A i, j \in DOMAIN rs : i < j => PositionOf(rs[i].url) < PositionOf(rs[j].url)

\* the results of the batch in flight, in the order of its tasks
BatchResults == NotNone([p \in DOMAIN work |-> work[p].result])

\* C18: the collected results are in the order of the task list, and a
\* collection appends the results of the batch in the order of its tasks,
\* whatever the order in which the workers finished them.
C18_ResultsInTaskOrder ==
    /\ []InTaskOrder(results)
    /\ [][results' # results => (results' = results \o BatchResults /\ InTaskOrder(results'))]_vars

\* every task of the batch has returned, and a task with a result finished
\* before an earlier task of the batch that has a result too
C18_Witness ==
    /\ pc = "wait"
    /\ \A p \in DOMAIN work : work[p].pc = "done"
    /\ \E p, q \in DOMAIN work :
           /\ p < q
           /\ work[p].result # None
           /\ work[q].result # None
           /\ work[q].rank < work[p].rank

\* C19: the completed count of the progress is the number of tasks whose
\* processing has ended, whatever their outcome; it never exceeds the number
\* of tasks and equals it when the scan has finished.
C19_ProgressCountsEveryTask ==
    /\ completed = Cardinality(finished)
    /\ completed <= Len(GenerateUrlList(services))
    /\ (ScanFinished => completed = Len(urls))

\* a finished scan with results, errors and tasks that gave nothing
C19_Witness ==
    /\ ScanFinished
    /\ completed = Len(urls)
    /\ results # <<>>
    /\ errors > 0
    /\ \E i \in DOMAIN urls :
           /\ ~Fails(urls[i].url)
           /\ urls[i].url \notin ResultUrls

====
